---- MODULE Spec2Model ----
\* A model of tower's Oneshot future (src/tower/src/util/oneshot.rs): a future that
\* owns a Service and one request, waits for the service to be ready, calls it once
\* and waits for the returned future.
\*
\* The Service and the future it returns are collaborators outside this file. They
\* are modelled as scripted doubles: a service carries the list of answers its
\* poll_ready will still give before it reports Ready(Ok(())), and the list of
\* answers the future it returns will give before it resolves to a success value.
\* Every script up to MaxScript answers is an initial state, so every pattern of
\* not-ready / readiness error / unresolved / processing error / success is covered.
EXTENDS Naturals, Sequences, FiniteSets

\* ---------------------------------------------------------------- bounds

\* Longest script of non-final answers of a readiness check or of a future.
MaxScript == 2

\* poll is called at most this many times: enough to exhaust both scripts, to
\* finish, and to poll once more after the end.
MaxDrives == 2 * MaxScript + 2

Requests == {"R1", "R2"}
Responses == {"V1", "V2"}
ReadyErrors == {"F1", "F2"}
CallErrors == {"E1", "E2"}

\* ---------------------------------------------------------------- values

\* Option<Req>: Some(r) is <<r>>, None is <<>>.
Some(r) == <<r>>
None == <<>>

\* Poll<Result<T, E>> of the collaborators.
Pending == [kind |-> "Pending", val |-> "-"]
ReadyOk(v) == [kind |-> "Ok", val |-> v]
ReadyErr(e) == [kind |-> "Err", val |-> e]

\* What one call of Oneshot::poll ends in: Poll::Pending, Poll::Ready(Ok(v)),
\* Poll::Ready(Err(e)), or a panic with a message. NoOut: the loop goes on.
NoOut == [kind |-> "None", ok |-> FALSE, val |-> "-"]
OutPending == [kind |-> "Pending", ok |-> FALSE, val |-> "-"]
OutReadyOk(v) == [kind |-> "Ready", ok |-> TRUE, val |-> v]
OutReadyErr(e) == [kind |-> "Ready", ok |-> FALSE, val |-> e]
OutPanic(msg) == [kind |-> "Panic", ok |-> FALSE, val |-> msg]

\* One use of a collaborator, as the event log records it.
Ev(op, res) == [op |-> op, kind |-> res.kind, val |-> res.val]

SeqsUpTo(S, n) == UNION {[1..k -> S] : k \in 0..n}

\* ---------------------------------------------------------------- collaborators

\* The scripted services: ready is what poll_ready still answers before Ready(Ok(())),
\* futs and val are the script and the final value of the future that call returns.
ServicesOver(rerrs, cerrs) ==
    [ready : SeqsUpTo({Pending} \cup {ReadyErr(e) : e \in rerrs}, MaxScript),
     futs : SeqsUpTo({Pending} \cup {ReadyErr(e) : e \in cerrs}, MaxScript),
     val : Responses]

Services == ServicesOver(ReadyErrors, CallErrors)

\* Service::poll_ready(cx): the next answer of the script, then Ready(Ok(())).
poll_ready(svc) ==
    IF svc.ready = <<>>
    THEN [res |-> ReadyOk("()"), svc |-> svc]
    ELSE [res |-> Head(svc.ready), svc |-> [svc EXCEPT !.ready = Tail(@)]]

\* Service::call(req): the in-flight future, which owns the request.
call(svc, r) == [req |-> r, script |-> svc.futs, val |-> svc.val]

\* Future::poll(cx) of the future call returned.
fut_poll(fut) ==
    IF fut.script = <<>>
    THEN [res |-> ReadyOk(fut.val), fut |-> fut]
    ELSE [res |-> Head(fut.script), fut |-> [fut EXCEPT !.script = Tail(@)]]

\* ---------------------------------------------------------------- state

VARIABLES
    state,  \* Oneshot.state: the State enum
    hist,   \* one record per finished call of poll, oldest first
    dbg     \* what the last Debug formatting of the state produced

vars == <<state, hist, dbg>>

\* State::NotReady(svc, req), State::Called(fut), State::Done
NotReady(svc, req) == [tag |-> "NotReady", svc |-> svc, req |-> req]
Called(fut) == [tag |-> "Called", fut |-> fut]
Done == [tag |-> "Done"]

\* Oneshot::new(svc, req)
new(svc, req) == NotReady(svc, Some(req))

Init ==
    /\ \E svc \in Services, req \in Requests : state = new(svc, req)
    /\ hist = <<>>
    /\ dbg = "none"

\* ---------------------------------------------------------------- Oneshot::poll

\* The context of one call of poll: the state as the loop has changed it so far,
\* the collaborator events of this call, the arms the loop has entered, whether
\* req.take() moved the request out, and the outcome once there is one.
Start(st) == [state |-> st, ev |-> <<>>, path |-> <<>>, moved |-> FALSE, out |-> NoOut]

\* NotReadyArm with the readiness answer ignored: the service is called whatever
\* poll_ready returned.
NotReadyArm_IgnoresReadiness(c) ==
    LET st == c.state
        pr == poll_ready(st.svc)
        c1 == [c EXCEPT !.ev = Append(@, Ev("poll_ready", pr.res)),
                        !.state = NotReady(pr.svc, st.req)]
    IN  IF st.req = None THEN [c1 EXCEPT !.out = OutPanic("already called")]
        ELSE [c1 EXCEPT !.ev = Append(@, [op |-> "call", kind |-> "-", val |-> st.req[1]]),
                        !.moved = TRUE,
                        !.state = Called(call(pr.svc, st.req[1]))]

\* NotReadyArm that calls the service with a copy of the request and returns Pending
\* without storing the future: the state stays NotReady.
NotReadyArm_KeepsState(c) ==
    LET st == c.state
        pr == poll_ready(st.svc)
        c1 == [c EXCEPT !.ev = Append(@, Ev("poll_ready", pr.res)),
                        !.state = NotReady(pr.svc, st.req)]
    IN  IF pr.res.kind = "Pending" THEN [c1 EXCEPT !.out = OutPending]
        ELSE IF pr.res.kind = "Err" THEN [c1 EXCEPT !.out = OutReadyErr(pr.res.val)]
        ELSE IF st.req = None THEN [c1 EXCEPT !.out = OutPanic("already called")]
        ELSE [c1 EXCEPT !.ev = Append(@, [op |-> "call", kind |-> "-", val |-> st.req[1]]),
                        !.out = OutPending]

\* NotReadyArm with req.take() done before the readiness check.
NotReadyArm_TakesFirst(c) ==
    LET st == c.state
        pr == poll_ready(st.svc)
        c1 == [c EXCEPT !.ev = Append(@, Ev("poll_ready", pr.res)),
                        !.moved = (st.req # None),
                        !.state = NotReady(pr.svc, None)]
    IN  IF pr.res.kind = "Pending" THEN [c1 EXCEPT !.out = OutPending]
        ELSE IF pr.res.kind = "Err" THEN [c1 EXCEPT !.out = OutReadyErr(pr.res.val)]
        ELSE IF st.req = None THEN [c1 EXCEPT !.out = OutPanic("already called")]
        ELSE [c1 EXCEPT !.ev = Append(@, [op |-> "call", kind |-> "-", val |-> st.req[1]]),
                        !.state = Called(call(pr.svc, st.req[1]))]

\* NotReadyArm that returns Pending right after storing the future, instead of going
\* round the loop to poll it.
NotReadyArm_ReturnsAfterCall(c) ==
    LET st == c.state
        pr == poll_ready(st.svc)
        c1 == [c EXCEPT !.ev = Append(@, Ev("poll_ready", pr.res)),
                        !.state = NotReady(pr.svc, st.req)]
    IN  IF pr.res.kind = "Pending" THEN [c1 EXCEPT !.out = OutPending]
        ELSE IF pr.res.kind = "Err" THEN [c1 EXCEPT !.out = OutReadyErr(pr.res.val)]
        ELSE IF st.req = None THEN [c1 EXCEPT !.out = OutPanic("already called")]
        ELSE [c1 EXCEPT !.ev = Append(@, [op |-> "call", kind |-> "-", val |-> st.req[1]]),
                        !.moved = TRUE,
                        !.state = Called(call(pr.svc, st.req[1])),
                        !.out = OutPending]

\* The arm State::NotReady(svc, req).
NotReadyArm(c) ==
    LET st == c.state
        pr == poll_ready(st.svc)
        c1 == [c EXCEPT !.ev = Append(@, Ev("poll_ready", pr.res)),
                        !.state = NotReady(pr.svc, st.req)]
    IN  IF pr.res.kind = "Pending" THEN [c1 EXCEPT !.out = OutPending]
        ELSE IF pr.res.kind = "Err" THEN [c1 EXCEPT !.out = OutReadyErr(pr.res.val)]
        ELSE IF st.req = None THEN [c1 EXCEPT !.out = OutPanic("already called")]
        ELSE [c1 EXCEPT !.ev = Append(@, [op |-> "call", kind |-> "-", val |-> st.req[1]]),
                        !.moved = TRUE,
                        !.state = Called(call(pr.svc, st.req[1]))]

\* CalledArm without the return after a success: the state becomes Done and the loop
\* goes on.
CalledArm_NoReturn(c) ==
    LET fp == fut_poll(c.state.fut)
        c1 == [c EXCEPT !.ev = Append(@, Ev("poll", fp.res)),
                        !.state = Called(fp.fut)]
    IN  IF fp.res.kind = "Pending" THEN [c1 EXCEPT !.out = OutPending]
        ELSE IF fp.res.kind = "Err" THEN [c1 EXCEPT !.out = OutReadyErr(fp.res.val)]
        ELSE [c1 EXCEPT !.state = Done]

\* CalledArm that reports every error of the future as one fixed error.
CalledArm_FixedError(c) ==
    LET fp == fut_poll(c.state.fut)
        c1 == [c EXCEPT !.ev = Append(@, Ev("poll", fp.res)),
                        !.state = Called(fp.fut)]
    IN  IF fp.res.kind = "Pending" THEN [c1 EXCEPT !.out = OutPending]
        ELSE IF fp.res.kind = "Err" THEN [c1 EXCEPT !.out = OutReadyErr("E1")]
        ELSE [c1 EXCEPT !.state = Done, !.out = OutReadyOk(fp.res.val)]

\* CalledArm that, on an error of the future, goes back to NotReady with the request
\* to try again, and reports the error.
CalledArm_Retries(c) ==
    LET fp == fut_poll(c.state.fut)
        c1 == [c EXCEPT !.ev = Append(@, Ev("poll", fp.res)),
                        !.state = Called(fp.fut)]
    IN  IF fp.res.kind = "Pending" THEN [c1 EXCEPT !.out = OutPending]
        ELSE IF fp.res.kind = "Err"
             THEN [c1 EXCEPT !.state = NotReady([ready |-> <<>>, futs |-> fp.fut.script,
                                                 val |-> fp.fut.val], Some(fp.fut.req)),
                             !.out = OutReadyErr(fp.res.val)]
        ELSE [c1 EXCEPT !.state = Done, !.out = OutReadyOk(fp.res.val)]

\* The arm State::Called(fut).
CalledArm(c) ==
    LET fp == fut_poll(c.state.fut)
        c1 == [c EXCEPT !.ev = Append(@, Ev("poll", fp.res)),
                        !.state = Called(fp.fut)]
    IN  IF fp.res.kind = "Pending" THEN [c1 EXCEPT !.out = OutPending]
        ELSE IF fp.res.kind = "Err" THEN [c1 EXCEPT !.out = OutReadyErr(fp.res.val)]
        ELSE [c1 EXCEPT !.state = Done, !.out = OutReadyOk(fp.res.val)]

\* DoneArm that answers Pending instead of panicking.
DoneArm_ReturnsPending(c) == [c EXCEPT !.out = OutPending]

\* The arm State::Done.
DoneArm(c) == [c EXCEPT !.out = OutPanic("polled after complete")]

\* One iteration of the loop: the match on the state.
Match(c) ==
    LET c1 == [c EXCEPT !.path = Append(@, c.state.tag)]
    IN  CASE c.state.tag = "NotReady" -> NotReadyArm(c1)
          [] c.state.tag = "Called" -> CalledArm(c1)
          [] c.state.tag = "Done" -> DoneArm(c1)

\* loop { match ... }: until an arm returns or panics.
RECURSIVE Loop(_)
Loop(c) == IF c.out # NoOut THEN c ELSE Loop(Match(c))

\* One call of Oneshot::poll by the task that owns the future.
poll ==
    /\ Len(hist) < MaxDrives
    /\ LET c == Loop(Start(state))
       IN  /\ state' = c.state
           /\ hist' = Append(hist, [pre |-> state.tag, post |-> c.state.tag,
                                    out |-> c.out, ev |-> c.ev,
                                    path |-> c.path, moved |-> c.moved])
    /\ UNCHANGED dbg

\* ---------------------------------------------------------------- State::fmt

\* <State as Debug>::fmt: the name of the tuple it writes, or the unreachable!() panic.
fmtState(st) ==
    CASE st.tag = "NotReady" /\ st.req # None -> "State::NotReady"
      [] st.tag = "NotReady" /\ st.req = None -> "unreachable"
      [] st.tag = "Called" -> "State::Called"
      [] st.tag = "Done" -> "State::Done"

fmt ==
    /\ dbg' = fmtState(state)
    /\ UNCHANGED <<state, hist>>

\* ---------------------------------------------------------------- specifications

Next == poll \/ fmt

Spec == Init /\ [][Next]_vars

\* The owning task polls again after every Pending (and nothing stops a caller from
\* polling after Ready): poll is taken whenever it stays enabled.
\* Progress reads only the kind of each answer (not-ready, error, success), so the
\* fair specification starts from one request and one error value of each origin.
LiveInit ==
    /\ \E svc \in ServicesOver({"F1"}, {"E1"}) : state = new(svc, "R1")
    /\ hist = <<>>
    /\ dbg = "none"

FairSpec == LiveInit /\ [][Next]_vars /\ WF_vars(poll)

\* ---------------------------------------------------------------- history

\* The collaborator events of all finished calls of poll, in the order they happened.
RECURSIVE Flat(_)
Flat(h) == IF h = <<>> THEN <<>> ELSE Flat(SubSeq(h, 1, Len(h) - 1)) \o h[Len(h)].ev

Events == Flat(hist)

Drives == 1..Len(hist)

CallCount == Cardinality({i \in 1..Len(Events) : Events[i].op = "call"})

ReadyCount == Cardinality({i \in Drives : hist[i].out.kind = "Ready"})

\* ---------------------------------------------------------------- C1

\* C1: over any sequence of calls of poll, Service::call is invoked only right after
\* poll_ready has returned Ready(Ok(())), with no other readiness poll in between, and
\* the in-flight future is polled only after call has been invoked.
C1_CallAfterReadyPollAfterCall ==
    /\ \A i \in 1..Len(Events) :
         Events[i].op = "call" =>
           /\ i > 1
           /\ Events[i - 1].op = "poll_ready"
           /\ Events[i - 1].kind = "Ok"
    /\ \A j \in 1..Len(Events) :
         Events[j].op = "poll" => \E i \in 1..(j - 1) : Events[i].op = "call"

\* A run in which readiness was first refused, then granted, the service called and
\* its future polled.
C1_Witness ==
    /\ Len(Events) >= 4
    /\ Events[1].op = "poll_ready" /\ Events[1].kind # "Ok"
    /\ \E i \in 1..Len(Events) : Events[i].op = "call"
    /\ \E i \in 1..Len(Events) : Events[i].op = "poll"

\* ---------------------------------------------------------------- C2

\* C2: for any behaviour of the service and its future, and also when poll is called
\* again after it has returned Ready, Service::call is invoked at most once.
C2_CallAtMostOnce == CallCount <= 1

\* The service has been called, and poll was called again after a Ready.
C2_Witness ==
    /\ CallCount = 1
    /\ \E i \in Drives : hist[i].out.kind = "Ready" /\ i < Len(hist)

\* ---------------------------------------------------------------- C3

\* C3: the request is moved out of its slot at most once, the move happens only in
\* the loop iteration that replaces State::NotReady by State::Called, and whenever
\* the state is NotReady the slot still holds the request.
C3_RequestMovedOnce ==
    /\ Cardinality({i \in Drives : hist[i].moved}) <= 1
    /\ \A i \in Drives :
         hist[i].moved =>
           /\ hist[i].pre = "NotReady"
           /\ Len(hist[i].path) >= 2
           /\ hist[i].path[1] = "NotReady"
           /\ hist[i].path[2] = "Called"
    /\ state.tag = "NotReady" => state.req # None

\* The request has been moved out, after a call of poll that left it in place.
C3_Witness ==
    \E i \in Drives :
        /\ hist[i].moved
        /\ i > 1
        /\ ~hist[i - 1].moved

\* ---------------------------------------------------------------- C4

\* C4: at most one call of poll returns Ready (Ok or Err): once poll has returned
\* Ready, no later call returns a second Ready.
C4_AtMostOneReady == ReadyCount <= 1

\* ---------------------------------------------------------------- C5

\* C5: when poll is called in State::NotReady and poll_ready reports Ready(Err(e)),
\* the call returns Ready(Err(e)) and the state after the call is State::Done.
C5_ReadinessErrorCompletes ==
    \A i \in Drives :
        (/\ hist[i].pre = "NotReady"
         /\ hist[i].ev # <<>>
         /\ hist[i].ev[1].op = "poll_ready"
         /\ hist[i].ev[1].kind = "Err") =>
            /\ hist[i].out = OutReadyErr(hist[i].ev[1].val)
            /\ hist[i].post = "Done"

\* ---------------------------------------------------------------- C6

\* C6: once poll_ready has reported an error, Service::call is never invoked and the
\* request is never moved out of its slot: not in the call of poll that saw the
\* error, and not in any later call of poll.
C6_NoCallAfterReadinessError ==
    \A i \in Drives :
        (\E k \in 1..Len(hist[i].ev) :
            hist[i].ev[k].op = "poll_ready" /\ hist[i].ev[k].kind = "Err") =>
            \A j \in i..Len(hist) :
                /\ ~hist[j].moved
                /\ \A k \in 1..Len(hist[j].ev) : hist[j].ev[k].op # "call"

\* ---------------------------------------------------------------- C7

\* C7: when poll is called in State::Called and the future resolves, the call returns
\* Ready(outcome) and the state after the call is State::Done, for a success value and
\* for an error alike.
C7_ResolutionCompletes ==
    \A i \in Drives :
        (/\ hist[i].pre = "Called"
         /\ hist[i].ev # <<>>
         /\ hist[i].ev[1].op = "poll"
         /\ hist[i].ev[1].kind # "Pending") =>
            /\ hist[i].out.kind = "Ready"
            /\ hist[i].out.ok = (hist[i].ev[1].kind = "Ok")
            /\ hist[i].out.val = hist[i].ev[1].val
            /\ hist[i].post = "Done"

\* ---------------------------------------------------------------- C8

\* C8: every call of poll made in State::Done panics: it polls neither the readiness
\* check nor any future, does not call the service, returns neither Pending nor
\* Ready, and leaves the state Done.
C8_PollWhenDonePanics ==
    \A i \in Drives :
        hist[i].pre = "Done" =>
            /\ hist[i].out = OutPanic("polled after complete")
            /\ hist[i].ev = <<>>
            /\ ~hist[i].moved
            /\ hist[i].post = "Done"

\* poll has been called in State::Done.
C8_Witness == \E i \in Drives : hist[i].pre = "Done"

\* ---------------------------------------------------------------- C9

\* C9: every call of poll made after an earlier call has returned Ready (a success, a
\* readiness error or a processing error) panics, and polls neither the service nor
\* the future again.
C9_PollAfterReadyPanics ==
    \A i \in Drives : \A j \in Drives :
        (i < j /\ hist[i].out.kind = "Ready") =>
            /\ hist[j].out.kind = "Panic"
            /\ hist[j].ev = <<>>

\* ---------------------------------------------------------------- C10

SomeReady == \E i \in Drives : hist[i].out.kind = "Ready"

\* A fresh Oneshot whose service is ready at once and whose future never fails.
ReadyAtOnceAndSucceeds ==
    /\ hist = <<>>
    /\ state.tag = "NotReady"
    /\ state.svc.ready = <<>>
    /\ \A k \in 1..Len(state.svc.futs) : state.svc.futs[k].kind # "Err"

\* poll has returned Ready(Ok(v)), v the value the future resolved to in that call.
SomeReadyOk ==
    \E i \in Drives :
        /\ hist[i].out.kind = "Ready"
        /\ hist[i].out.ok
        /\ hist[i].ev # <<>>
        /\ hist[i].ev[Len(hist[i].ev)] = [op |-> "poll", kind |-> "Ok", val |-> hist[i].out.val]

\* C10: when poll is called again after every Pending, the readiness check stops
\* reporting not-ready and the future resolves, some call of poll eventually returns
\* Ready; and for a service that is ready at once and succeeds, poll eventually
\* returns Ready(Ok(response)).
C10_EventuallyReady ==
    /\ <>SomeReady
    /\ ReadyAtOnceAndSucceeds ~> SomeReadyOk

\* poll returned Ready after having returned Pending for the readiness check and for
\* the future.
C10_Witness ==
    \E i \in Drives : \E j \in Drives : \E k \in Drives :
        /\ i < j /\ j < k
        /\ hist[i].out.kind = "Pending" /\ hist[i].post = "NotReady"
        /\ hist[j].out.kind = "Pending" /\ hist[j].post = "Called"
        /\ hist[k].out.kind = "Ready"

\* ---------------------------------------------------------------- C11

\* The first call of poll whose readiness check did not answer not-ready, when every
\* call before it saw not-ready: 0 when there is none yet.
FirstReadyDrive ==
    LET S == {i \in Drives :
                /\ hist[i].ev # <<>>
                /\ hist[i].ev[1] = Ev("poll_ready", ReadyOk("()"))
                /\ \A k \in 1..(i - 1) :
                     /\ hist[k].ev # <<>>
                     /\ hist[k].ev[1] = Ev("poll_ready", Pending)}
    IN  IF S = {} THEN 0 ELSE CHOOSE i \in S : TRUE

\* C11: for a service whose poll_ready answers not-ready exactly n times and then
\* Ready(Ok(())), the first n calls of poll each return Pending without taking the
\* request, the request is taken and Service::call invoked exactly once, in call
\* n+1; and if the future resolves on its first poll with error E, that same call
\* n+1 returns Ready(Err(E)).
C11_NotReadyThenCalledOnce ==
    FirstReadyDrive # 0 =>
        LET m == FirstReadyDrive
            h == hist[m]
        IN  /\ \A k \in 1..(m - 1) :
                 /\ hist[k].out = OutPending
                 /\ ~hist[k].moved
                 /\ hist[k].ev = <<Ev("poll_ready", Pending)>>
                 /\ hist[k].post = "NotReady"
            /\ h.moved
            /\ Len(h.ev) = 3
            /\ h.ev[2].op = "call"
            /\ h.ev[3].op = "poll"
            /\ CallCount = 1
            /\ {i \in Drives : hist[i].moved} = {m}
            /\ h.ev[3].kind = "Err" => h.out = OutReadyErr(h.ev[3].val)

\* Scenario B with n = 2: two Pending for readiness, then the call whose future fails
\* on its first poll.
C11_Witness ==
    /\ FirstReadyDrive = 3
    /\ hist[3].out.kind = "Ready"
    /\ ~hist[3].out.ok
    /\ hist[3].out.val \in CallErrors

\* ---------------------------------------------------------------- C12

\* The last collaborator event of a finished call of poll.
LastEv(h) == h.ev[Len(h.ev)]

\* C12: whenever poll returns Ready(Ok(v)), v is the value the in-flight future
\* resolved to in that call, and that future was created by the one Service::call on
\* the request given to Oneshot::new (the request in the slot and the request the
\* future owns never change); whenever poll returns Ready(Err(e)), e is the error
\* poll_ready or the future reported in that same call.
C12_OutcomePassedThrough ==
    [][hist' # hist =>
        LET h == hist'[Len(hist')]
        IN  /\ (h.out.kind = "Ready" /\ h.out.ok) =>
                 /\ h.ev # <<>>
                 /\ LastEv(h) = Ev("poll", ReadyOk(h.out.val))
            /\ (h.out.kind = "Ready" /\ ~h.out.ok) =>
                 /\ h.ev # <<>>
                 /\ \/ LastEv(h) = Ev("poll_ready", ReadyErr(h.out.val))
                    \/ LastEv(h) = Ev("poll", ReadyErr(h.out.val))
            /\ \A k \in 1..Len(h.ev) :
                 h.ev[k].op = "call" =>
                    /\ state.tag = "NotReady"
                    /\ state.req = Some(h.ev[k].val)
                    /\ state'.tag # "NotReady"
                    /\ state'.tag = "Called" => state'.fut.req = h.ev[k].val
            /\ (state.tag = "NotReady" /\ state'.tag = "NotReady") => state'.req = state.req
            /\ (state.tag = "Called" /\ state'.tag = "Called") =>
                 /\ state'.fut.req = state.fut.req
                 /\ state'.fut.val = state.fut.val
    ]_vars

\* poll has returned a readiness error, then a processing error, then a success, each
\* the second value of its kind.
C12_Witness ==
    \E i \in Drives : \E j \in Drives : \E k \in Drives :
        /\ i < j /\ j < k
        /\ hist[i].out = OutReadyErr("F2")
        /\ hist[j].out = OutReadyErr("E2")
        /\ hist[k].out = OutReadyOk("V2")

\* ---------------------------------------------------------------- C13

\* C13, as claimed: a call of poll that returns Pending leaves the Oneshot unchanged:
\* after a not-ready readiness check the state is NotReady as before, the request
\* untaken and the service not called; after an unresolved future the state is
\* Called as before and the service was not called in that call of poll.
C13_PendingLeavesUnchanged ==
    \A i \in Drives :
        hist[i].out = OutPending =>
            /\ hist[i].ev # <<>>
            /\ LastEv(hist[i]) = Ev("poll_ready", Pending) =>
                 /\ hist[i].pre = "NotReady" /\ hist[i].post = "NotReady"
                 /\ ~hist[i].moved
                 /\ \A k \in 1..Len(hist[i].ev) : hist[i].ev[k].op # "call"
            /\ LastEv(hist[i]) = Ev("poll", Pending) =>
                 /\ hist[i].pre = "Called" /\ hist[i].post = "Called"
                 /\ ~hist[i].moved
                 /\ \A k \in 1..Len(hist[i].ev) : hist[i].ev[k].op # "call"

\* C13, amended: a call of poll that returns Pending because poll_ready answered
\* not-ready leaves the state NotReady with the same request in the slot and calls
\* nothing else; one that begins in State::Called and finds the future unresolved
\* leaves the state Called with the same future and calls nothing else; one that
\* begins in State::NotReady, finds the service ready and the new future unresolved
\* returns Pending after taking the request, calling the service once and entering
\* State::Called. There is no other way to return Pending.
C13_PendingFrame ==
    [][(hist' # hist /\ hist'[Len(hist')].out = OutPending) =>
        LET h == hist'[Len(hist')]
        IN  \/ /\ h.ev = <<Ev("poll_ready", Pending)>>
               /\ state.tag = "NotReady" /\ state'.tag = "NotReady"
               /\ state'.req = state.req
               /\ state'.req # None
               /\ ~h.moved
            \/ /\ h.ev = <<Ev("poll", Pending)>>
               /\ state.tag = "Called" /\ state'.tag = "Called"
               /\ state'.fut.req = state.fut.req
               /\ ~h.moved
            \/ /\ Len(h.ev) = 3
               /\ h.ev[1] = Ev("poll_ready", ReadyOk("()"))
               /\ h.ev[2] = [op |-> "call", kind |-> "-", val |-> state.req[1]]
               /\ h.ev[3] = Ev("poll", Pending)
               /\ state.tag = "NotReady" /\ state'.tag = "Called"
               /\ h.moved
    ]_vars

\* poll has returned Pending in each of the three ways: readiness not-ready, then the
\* fused call with an unresolved future, then the future still unresolved.
C13_Witness ==
    /\ Len(hist) >= 3
    /\ hist[1].out = OutPending /\ hist[1].post = "NotReady"
    /\ hist[2].out = OutPending /\ hist[2].pre = "NotReady" /\ hist[2].post = "Called"
    /\ hist[3].out = OutPending /\ hist[3].pre = "Called"

\* ---------------------------------------------------------------- C14

\* C14: in the call of poll in which poll_ready answers Ready(Ok(())), the request is
\* handed to Service::call, the state becomes Called and the new future is polled, all
\* within that call and in that order; so a service that is ready at once and whose
\* future resolves on its first poll makes the very first call of poll return Ready.
C14_Fused ==
    /\ \A i \in Drives :
         (\E k \in 1..Len(hist[i].ev) : hist[i].ev[k] = Ev("poll_ready", ReadyOk("()"))) =>
            /\ Len(hist[i].ev) = 3
            /\ hist[i].ev[1] = Ev("poll_ready", ReadyOk("()"))
            /\ hist[i].ev[2].op = "call"
            /\ hist[i].ev[3].op = "poll"
            /\ hist[i].moved
            /\ hist[i].path = <<"NotReady", "Called">>
            /\ hist[i].post \in {"Called", "Done"}
    /\ (/\ Len(hist) >= 1
        /\ hist[1].ev[1] = Ev("poll_ready", ReadyOk("()"))
        /\ Len(hist[1].ev) >= 3
        /\ hist[1].ev[3].kind # "Pending") =>
            /\ hist[1].out.kind = "Ready"
            /\ hist[1].out.val = hist[1].ev[3].val

\* Scenario A: the first call of poll returned Ready(Ok(v)).
C14_Witness ==
    /\ Len(hist) >= 1
    /\ hist[1].out.kind = "Ready"
    /\ hist[1].out.ok
    /\ hist[1].path = <<"NotReady", "Called">>

\* ---------------------------------------------------------------- C15

\* The order of the phases.
Rank(tag) == CASE tag = "NotReady" -> 0 [] tag = "Called" -> 1 [] tag = "Done" -> 2

\* C15: the state is NotReady with the request present and nothing polled at
\* construction, and only ever moves forward in the order NotReady, Called, Done: no
\* step, and no loop iteration within a call of poll, moves it from Called back to
\* NotReady or from Done to any other state.
C15_PhaseMonotone ==
    /\ state.tag = "NotReady" /\ state.req # None /\ hist = <<>>
    /\ [][/\ Rank(state'.tag) >= Rank(state.tag)
          /\ hist' # hist =>
               LET h == hist'[Len(hist')]
               IN  /\ h.path # <<>>
                   /\ h.path[1] = state.tag
                   /\ \A k \in 1..(Len(h.path) - 1) : Rank(h.path[k]) <= Rank(h.path[k + 1])
                   /\ Rank(h.path[Len(h.path)]) <= Rank(state'.tag)
       ]_vars

\* The state has gone through NotReady, Called and Done in separate calls of poll, and
\* poll was called once more in Done.
C15_Witness ==
    /\ Len(hist) >= 4
    /\ hist[1].post = "NotReady"
    /\ hist[2].post = "Called"
    /\ hist[3].post = "Done"
    /\ hist[4].pre = "Done" /\ state.tag = "Done"

\* ---------------------------------------------------------------- C16

OkCount == Cardinality({i \in Drives : hist[i].out.kind = "Ready" /\ hist[i].out.ok})

\* State::Done is entered only by a call of poll whose future resolved with a success,
\* and while the state is Done exactly one call has returned Ready(Ok(_)).
DoneOnlyBySuccess ==
    /\ \A i \in Drives :
         (hist[i].post = "Done" /\ hist[i].pre # "Done") =>
            /\ hist[i].out.kind = "Ready" /\ hist[i].out.ok
            /\ LastEv(hist[i]) = Ev("poll", ReadyOk(hist[i].out.val))
    /\ state.tag = "Done" => OkCount = 1
    /\ state.tag # "Done" => OkCount = 0

\* C16, as claimed: Done is entered only on success, and after a call of poll that
\* returned Ready(Err(_)) the state is still the one it was when that call began:
\* NotReady for a readiness error, Called for a processing error.
C16_ErrorKeepsStartPhase ==
    /\ DoneOnlyBySuccess
    /\ \A i \in Drives :
         (hist[i].out.kind = "Ready" /\ ~hist[i].out.ok) =>
            /\ hist[i].post = hist[i].pre
            /\ LastEv(hist[i]).op = "poll_ready" => hist[i].post = "NotReady"
            /\ LastEv(hist[i]).op = "poll" => hist[i].post = "Called"

\* C16, amended: Done is entered only on success, and after a call of poll that
\* returned Ready(Err(_)) the state is the one of the arm that saw the error: NotReady,
\* as when the call began, for a readiness error; Called for a processing error, which
\* is the state the call began in unless the call began in NotReady and reached the
\* future in its second loop iteration.
C16_ErrorKeepsArmPhase ==
    /\ DoneOnlyBySuccess
    /\ \A i \in Drives :
         (hist[i].out.kind = "Ready" /\ ~hist[i].out.ok) =>
            /\ hist[i].ev # <<>>
            /\ hist[i].post = hist[i].path[Len(hist[i].path)]
            /\ LastEv(hist[i]).op \in {"poll_ready", "poll"}
            /\ LastEv(hist[i]).op = "poll_ready" =>
                 /\ hist[i].pre = "NotReady" /\ hist[i].post = "NotReady"
            /\ LastEv(hist[i]).op = "poll" =>
                 /\ hist[i].post = "Called"
                 /\ \/ hist[i].pre = "Called" /\ hist[i].path = <<"Called">>
                    \/ hist[i].pre = "NotReady" /\ hist[i].path = <<"NotReady", "Called">>

\* A readiness error, then a processing error in the call of poll that began in
\* NotReady, then a processing error in a call that began in Called, then the success
\* that entered Done.
C16_Witness ==
    /\ Len(hist) >= 4
    /\ hist[1].out.kind = "Ready" /\ ~hist[1].out.ok /\ hist[1].post = "NotReady"
    /\ hist[2].out.kind = "Ready" /\ ~hist[2].out.ok
    /\ hist[2].pre = "NotReady" /\ hist[2].post = "Called"
    /\ hist[3].out.kind = "Ready" /\ ~hist[3].out.ok /\ hist[3].pre = "Called"
    /\ hist[4].out.kind = "Ready" /\ hist[4].out.ok
    /\ state.tag = "Done"

\* ---------------------------------------------------------------- C17

\* C17: State::NotReady(_, None) is reached by no sequence of calls of poll, so poll
\* never panics with "already called" and State::fmt never reaches unreachable!().
C17_EmptySlotUnreachable ==
    /\ state.tag = "NotReady" => Len(state.req) = 1
    /\ \A i \in Drives : hist[i].out # OutPanic("already called")
    /\ fmtState(state) # "unreachable"
    /\ dbg # "unreachable"

\* The state has been formatted while NotReady, after a call of poll that left it so.
C17_Witness ==
    /\ Len(hist) >= 2
    /\ state.tag = "NotReady"
    /\ dbg = "State::NotReady"

\* ---------------------------------------------------------------- C18

\* C18: the service is released in the loop iteration that hands off the request:
\* State::Called and State::Done hold no service, and poll_ready is never polled again
\* once Service::call has been invoked.
C18_ServiceReleasedAtCall ==
    /\ ("svc" \in DOMAIN state) <=> (state.tag = "NotReady")
    /\ CallCount >= 1 => state.tag \in {"Called", "Done"}
    /\ \A i \in 1..Len(Events) : \A j \in 1..Len(Events) :
         (i < j /\ Events[i].op = "call") => Events[j].op # "poll_ready"

\* The service was called and poll was called again afterwards, in Called and in Done.
C18_Witness ==
    \E i \in Drives : \E j \in Drives :
        /\ i < j
        /\ hist[i].moved
        /\ hist[i + 1].pre = "Called"
        /\ hist[j].pre = "Done"

\* ---------------------------------------------------------------- C19

\* C19: every call of poll ends after at most two iterations of its loop, polls the
\* readiness check at most once and the future at most once, and ends in exactly one
\* of Pending, Ready, or a panic.
C19_PollTerminates ==
    \A i \in Drives :
        /\ Len(hist[i].path) \in 1..2
        /\ Cardinality({k \in 1..Len(hist[i].ev) : hist[i].ev[k].op = "poll_ready"}) <= 1
        /\ Cardinality({k \in 1..Len(hist[i].ev) : hist[i].ev[k].op = "poll"}) <= 1
        /\ hist[i].out.kind \in {"Pending", "Ready", "Panic"}
        /\ hist[i].out.kind = "Panic" => hist[i].path = <<"Done">>

\* Calls of poll with one loop iteration and with two, ending in Pending, in Ready and
\* in a panic.
C19_Witness ==
    /\ \E i \in Drives : Len(hist[i].path) = 1 /\ hist[i].out.kind = "Pending"
    /\ \E i \in Drives : Len(hist[i].path) = 2 /\ hist[i].out.kind = "Ready"
    /\ \E i \in Drives : hist[i].out.kind = "Panic"

====
